---------------------------- MODULE Spec2Model ----------------------------
(***************************************************************************)
(* A model of webmo/webmo_rest.py: the lineshape functions (lorentz_line,  *)
(* gauss_line, voigt_line and the memoised _faddeeva evaluator) and the    *)
(* job-polling helper wait_for_jobs.                                       *)
(*                                                                         *)
(* Numbers.  A real number is held as an integer count of 1/Unit, with     *)
(* Unit = 2^FracBits.  Python floats are binary floating point: the model  *)
(* keeps MantBits significant bits (binary64 keeps 53) and rounds to       *)
(* nearest, ties to even, wherever the code's arithmetic on the sample     *)
(* axis rounds.  Shape-function values are kept as exact symbolic terms    *)
(* (rationals times the irrational constants pi, sqrt(2 ln 2), 2^t).       *)
(***************************************************************************)
EXTENDS Integers, Sequences, FiniteSets, TLC

(* ------------------------------ bounds -------------------------------- *)
FracBits == 7      \* fractional bits of the fixed-point representation
MantBits == 4      \* significant bits of the model's floating point
MaxPts   == 20     \* longest sample axis a modelled call may enumerate

Unit == 2^FracBits
Num(n) == n * Unit                 \* the integer n as a model number

(* --------------------------- float arithmetic ------------------------- *)
Abs(n) == IF n < 0 THEN -n ELSE n
Sgn(n) == IF n < 0 THEN -1 ELSE IF n > 0 THEN 1 ELSE 0

\* a/b (a >= 0, b > 0) rounded to the nearest integer, ties to even
RoundHalfEven(a, b) ==
    LET q == a \div b
        r == a % b
    IN  IF 2 * r < b THEN q
        ELSE IF 2 * r > b THEN q + 1
        ELSE IF q % 2 = 0 THEN q ELSE q + 1

\* least e >= 0 with a < b * 2^(MantBits + e)
RECURSIVE ExpUp(_, _, _)
ExpUp(a, b, e) == IF a < b * 2^(MantBits + e) THEN e ELSE ExpUp(a, b, e + 1)

\* least k >= 0 with a * 2^k >= b * 2^(MantBits - 1)   (a > 0)
RECURSIVE ExpDown(_, _, _)
ExpDown(a, b, k) ==
    IF a * 2^k >= b * 2^(MantBits - 1) THEN k ELSE ExpDown(a, b, k + 1)

\* the rational a/b (a >= 0, b > 0) rounded to MantBits significant bits
RoundQ(a, b) ==
    LET e == ExpUp(a, b, 0)
    IN  RoundHalfEven(a, b * 2^e) * 2^e

\* the float nearest to the integer n (a count of 1/Unit)
Fl(n) == Sgn(n) * RoundQ(Abs(n), 1)

\* the float nearest to the decimal a/b (b > 0), as a count of 1/Unit: how
\* Python reads a literal such as 0.1 = FlQ(1, 10)
FlQ(a, b) == Sgn(a) * RoundQ(Abs(a) * Unit, b)

\* ceil of the float nearest to a/b, for a > 0, b > 0: the quotient is
\* rounded to MantBits significant bits before the ceiling is taken
CeilFlDiv(a, b) ==
    LET e == ExpUp(a, b, 0)
        k == ExpDown(a, b, 0)
    IN  IF e > 0
        THEN RoundHalfEven(a, b * 2^e) * 2^e
        ELSE (RoundHalfEven(a * 2^k, b) + 2^k - 1) \div 2^k

(* ------------------------------ np.arange ----------------------------- *)
\* a Python int: np.arange computes on int arguments in integers
IsInt(v) == v % Unit = 0

\* the length numpy gives the axis: ceil((stop - start) / step), computed
\* in floating point unless all arguments are ints; a division by zero
\* raises
arange_len(start, stop, step) ==
    LET delta == IF IsInt(start) /\ IsInt(stop) THEN stop - start
                 ELSE Fl(stop - start)
    IN  IF delta = 0 \/ Sgn(delta) # Sgn(step) THEN 0
        ELSE IF IsInt(start) /\ IsInt(stop) /\ IsInt(step)
        THEN (Abs(delta) + Abs(step) - 1) \div Abs(step)
        ELSE CeilFlDiv(Abs(delta), Abs(step))

\* the axis values: start, next = start + step, then start + i * delta with
\* delta = next - start, each operation rounded
arange_at(start, step, i) ==
    LET next == Fl(start + step)
        d    == Fl(next - start)
    IN  IF IsInt(start) /\ IsInt(step) THEN start + i * step
        ELSE IF i = 0 THEN start
        ELSE IF i = 1 THEN next
        ELSE Fl(start + Fl(i * d))

\* (mutant) np.arange without the check of step: a zero step enumerates
\* nothing instead of raising
arange_unchecked(start, stop, step) ==
    [exc |-> "",
     x   |-> [j \in 1..(IF step = 0 THEN 0 ELSE arange_len(start, stop, step))
                 |-> arange_at(start, step, j - 1)]]

arange(start, stop, step) ==
    IF step = 0
    THEN [exc |-> "ZeroDivisionError", x |-> << >>]
    ELSE [exc |-> "",
          x   |-> [j \in 1..arange_len(start, stop, step)
                      |-> arange_at(start, step, j - 1)]]

(* ----------------------------- np.vectorize --------------------------- *)
\* np.vectorize(f)(x) for a shape function whose values at the points of
\* x are ys (a value is a record; exc # "" says the evaluation raised):
\* a size-0 input raises ValueError, a raising evaluation propagates,
\* otherwise the values are returned in the order of x
Raising(ys) == {j \in 1..Len(ys) : ys[j].exc # ""}

\* (mutant) the values come back in the reverse order of x
vectorize_reversed(ys) ==
    IF Len(ys) = 0
    THEN [exc |-> "ValueError", y |-> << >>]
    ELSE [exc |-> "", y |-> [j \in 1..Len(ys) |-> ys[Len(ys) + 1 - j]]]

vectorize(ys) ==
    IF Len(ys) = 0
    THEN [exc |-> "ValueError", y |-> << >>]
    ELSE IF Raising(ys) # {}
    THEN [exc |-> ys[CHOOSE j \in Raising(ys) :
                        \A h \in Raising(ys) : j <= h].exc,
          y   |-> << >>]
    ELSE [exc |-> "", y |-> ys]

(* ------------------------------ Lorentzian ---------------------------- *)
\* _arb_lorentz(center, intensity, width)(x):
\*   gamma = width / 2
\*   (intensity / pi) * (gamma / ((x - center)**2 + gamma**2))
\* kept exactly as the rational num/den with value = num / (den * pi);
\* numerator and denominator are both scaled by 4 to stay integral
\* (mutant) the offset is taken from -center: (x + center)**2
_arb_lorentz_shifted(center, intensity, width, x) ==
    LET den == 4 * (x + center) * (x + center) + width * width
    IN  IF den = 0
        THEN [exc |-> "ZeroDivisionError", kind |-> "lorentz"]
        ELSE [exc |-> "", kind |-> "lorentz", fin |-> TRUE,
              num |-> 2 * intensity * width, den |-> den]

\* (mutant) the offset is doubled instead of squared: (x - center)*2
_arb_lorentz_linear(center, intensity, width, x) ==
    LET den == 8 * (x - center) * Unit + width * width
    IN  IF den = 0
        THEN [exc |-> "ZeroDivisionError", kind |-> "lorentz"]
        ELSE [exc |-> "", kind |-> "lorentz", fin |-> TRUE,
              num |-> 2 * intensity * width, den |-> den]

_arb_lorentz(center, intensity, width, x) ==
    LET den == 4 * (x - center) * (x - center) + width * width
    IN  IF den = 0
        THEN [exc |-> "ZeroDivisionError", kind |-> "lorentz"]
        ELSE [exc |-> "", kind |-> "lorentz", fin |-> TRUE,
              num |-> 2 * intensity * width, den |-> den]

(* ------------------------------- Gaussian ----------------------------- *)
\* _arb_gaussian(center, intensity, width)(x):
\*   sigma = width / (2 * sqrt(2 * log(2)))
\*   intensity * (1/sigma*sqrt(2*pi)) * exp(-((x-center)**2/(2*sigma**2)))
\* With kappa = 2*sqrt(2 ln 2) the value is the symbolic term
\*   (ampNum/ampDen) * kappa * sqrt(2 pi)^root2pi * 2^(-(expNum/expDen));
\* 1/sigma*sqrt(2*pi) parses as (1/sigma)*sqrt(2*pi), so root2pi = +1, and
\* 1/sigma raises ZeroDivisionError when sigma = 0.0
\* (mutant) the offset in the exponent is not squared
_arb_gaussian_unsquared(center, intensity, width, x) ==
    IF width = 0
    THEN [exc |-> "ZeroDivisionError", kind |-> "gauss"]
    ELSE [exc |-> "", kind |-> "gauss", fin |-> TRUE,
          ampNum |-> intensity, ampDen |-> width, root2pi |-> 1,
          expNum |-> 4 * (x - center) * Unit,
          expDen |-> width * width]

_arb_gaussian(center, intensity, width, x) ==
    IF width = 0
    THEN [exc |-> "ZeroDivisionError", kind |-> "gauss"]
    ELSE [exc |-> "", kind |-> "gauss", fin |-> TRUE,
          ampNum |-> intensity, ampDen |-> width, root2pi |-> 1,
          expNum |-> 4 * (x - center) * (x - center),
          expDen |-> width * width]

(* ------------------------------- Faddeeva ----------------------------- *)
TableLen == 1000                     \* number of literals in the list l
FaddeevaN == 1000                    \* _faddeeva.N = 1000

None == << >>                        \* Python's None
Some(v) == << v >>                   \* a set attribute
Get(o) == o[1]

\* floor of the square root (np.sqrt at the model's fixed-point precision)
RECURSIVE ISqrtIter(_, _)
ISqrtIter(n, r) ==
    LET r2 == (r + n \div r) \div 2
    IN  IF r2 >= r THEN r ELSE ISqrtIter(n, r2)

ISqrt(n) == IF n <= 0 THEN 0 ELSE ISqrtIter(n, n)

\* sqrt of a model number, as a model number
np_sqrt(v) == ISqrt(v * Unit)

\* a = np.array(l): an array over the literals of the list l, held as
\* numpy holds it, as a strided view: element j (from 0) is the literal
\* number first + j * stride of the source list
np_array_l == [len |-> TableLen, first |-> 1, stride |-> 1]

\* np.flip(a): the same data read backwards
np_flip(a) == [len |-> a.len, first |-> a.first + (a.len - 1) * a.stride,
               stride |-> -a.stride]

\* np.polynomial.polynomial.Polynomial(a): coefficient k is a[k]
Polynomial(a) == [coef |-> a]

\* (mutant) the flag is never set: every call rebuilds the table
faddeeva_init_noflag(st) ==
    LET a == np_flip(np_array_l)
    IN  [run_yet |-> FALSE,
         N       |-> Some(FaddeevaN),
         L       |-> Some(np_sqrt((Num(FaddeevaN) * Unit) \div np_sqrt(Num(2)))),
         vals    |-> Some(a),
         poly    |-> Some(Polynomial(a))]

\* (mutant) the flip is applied to the stored table on every later call
faddeeva_init_reflip(st) ==
    IF st.run_yet = FALSE
    THEN LET a == np_flip(np_array_l)
         IN  [run_yet |-> TRUE,
              N       |-> Some(FaddeevaN),
              L       |-> Some(np_sqrt((Num(FaddeevaN) * Unit) \div np_sqrt(Num(2)))),
              vals    |-> Some(a),
              poly    |-> Some(Polynomial(a))]
    ELSE [st EXCEPT !.vals = Some(np_flip(Get(st.vals))),
                    !.poly = Some(Polynomial(np_flip(Get(st.vals))))]

\* the function attributes after the body of `if _faddeeva.run_yet == False`
faddeeva_init(st) ==
    IF st.run_yet = FALSE
    THEN LET a == np_flip(np_array_l)
         IN  [run_yet |-> TRUE,
              N       |-> Some(FaddeevaN),
              L       |-> Some(np_sqrt((Num(FaddeevaN) * Unit) \div np_sqrt(Num(2)))),
              vals    |-> Some(a),
              poly    |-> Some(Polynomial(a))]
    ELSE st

\* lines 1024-1028 on attributes st: the term
\*   2 * poly(Z) / (L - 1j*z)**2 + (1/sqrt(pi)) / (L - 1j*z),
\*   Z = (L + 1j*z) / (L - 1j*z)
\* named by what it is computed from; arithmetic on None raises TypeError
faddeeva_eval(st, z) ==
    IF st.L = None \/ st.poly = None
    THEN [exc |-> "TypeError"]
    ELSE [exc |-> "", z |-> z, L |-> Get(st.L), poly |-> Get(st.poly)]

(* -------------------------------- Voigt ------------------------------- *)
\* a/b rounded to the nearest integer, for any sign of a and b # 0
RoundDiv(a, b) == Sgn(a) * Sgn(b) * RoundHalfEven(Abs(a), Abs(b))

\* (mutant) the boundary ratios are special-cased to a pure Lorentzian
\* (q = 0) and a pure Gaussian (q = 1)
_voigt_decoder_guarded(q, k) ==
    IF q = 0
    THEN [exc |-> "", gamma |-> [t |-> "num", v |-> k \div 2],
                      sigma |-> [t |-> "num", v |-> 1]]
    ELSE [exc |-> "", gamma |-> [t |-> "num", v |-> 0],
                      sigma |-> [t |-> "num", v |-> k]]

\* _voigt_decoder(q, k).  With om = -1 + q and T = 4 - 8q + 5q^2,
\*   np.sqrt(k^2 q^2 T / om^4) = |k| |q| sqrt(T) / om^2 ;
\* the division by om^4 is Python's and raises at q = 1, the division by
\* 2*om*q has a numpy numerator and yields nan (0/0) or inf at q = 0.
\* sigma = f_g / kappa is returned as f_g (in units of 1/kappa).
_voigt_decoder(q, k) ==
    LET om   == q - Unit
        T    == 4 * Unit * Unit - 8 * Unit * q + 5 * q * q
        root == Abs(k) * Abs(q) * ISqrt(T)
        nl   == root - k * q * q
        ng   == k * q * q - root
    IN  IF om = 0
        THEN [exc |-> "ZeroDivisionError"]
        ELSE [exc   |-> "",
              gamma |-> [t |-> "num", v |-> RoundDiv(nl, 4 * om * om)],
              sigma |-> IF 2 * om * q # 0
                        THEN [t |-> "num", v |-> RoundDiv(ng, 2 * om * q)]
                        ELSE IF ng = 0 THEN [t |-> "nan", v |-> 0]
                        ELSE [t |-> "inf", v |-> Sgn(ng)]]

\* the closure l(x) of _arb_voigt for decoded (gamma, sigma):
\*   intensity * (_faddeeva((x - center + gamma*1j)/(sqrt(2)*sigma)).real
\*                / (sigma * sqrt(2*pi)))
\* numpy's division by a zero or non-finite sigma does not raise: the
\* value is then nan or inf (fin = FALSE)
voigt_value(st, dec, center, intensity, x) ==
    LET z == [re |-> x - center, im |-> dec.gamma.v, sig |-> dec.sigma.v]
        w == faddeeva_eval(st, z)
    IN  IF w.exc # "" THEN [exc |-> w.exc, kind |-> "voigt"]
        ELSE IF dec.sigma.t # "num" \/ dec.sigma.v = 0
        THEN [exc |-> "", kind |-> "voigt", fin |-> FALSE]
        ELSE [exc |-> "", kind |-> "voigt", fin |-> TRUE,
              intensity |-> intensity, w |-> w]

(* ------------------------- the line functions ------------------------- *)
\* x = np.arange(start, stop, step); vfunc = np.vectorize(f); (x, vfunc(x))
\* for the values ys of the shape function at the points of ar.x
line_result(ar, ys) ==
    IF ar.exc # ""
    THEN [exc |-> ar.exc, x |-> << >>, y |-> << >>]
    ELSE LET vf == vectorize(ys)
         IN  IF vf.exc # ""
             THEN [exc |-> vf.exc, x |-> << >>, y |-> << >>]
             ELSE [exc |-> "", x |-> ar.x, y |-> vf.y]

lorentz_line(center, intensity, width, start, stop, step) ==
    LET ar == arange(start, stop, step)
    IN  line_result(ar, [j \in 1..Len(ar.x) |->
                           _arb_lorentz(center, intensity, width, ar.x[j])])

gauss_line(center, intensity, width, start, stop, step) ==
    LET ar == arange(start, stop, step)
    IN  line_result(ar, [j \in 1..Len(ar.x) |->
                           _arb_gaussian(center, intensity, width, ar.x[j])])

\* voigt_line on function attributes st: np.arange, then _arb_voigt (the
\* decoder runs once, before any sample is evaluated), then the
\* vectorised closure, whose first evaluation runs _faddeeva's lazy build
voigt_line(st, center, intensity, width, q, start, stop, step) ==
    LET ar  == arange(start, stop, step)
        dec == _voigt_decoder(q, width)
    IN  IF ar.exc # "" THEN line_result(ar, << >>)
        ELSE IF dec.exc # "" THEN [exc |-> dec.exc, x |-> << >>, y |-> << >>]
        ELSE line_result(ar, [j \in 1..Len(ar.x) |->
                 voigt_value(faddeeva_init(st), dec, center, intensity, ar.x[j])])

\* whether voigt_line reaches _faddeeva: the axis and the decoder did not
\* raise and the axis is not empty
voigt_line_evaluates(width, q, start, stop, step) ==
    LET ar  == arange(start, stop, step)
        dec == _voigt_decoder(q, width)
    IN  ar.exc = "" /\ dec.exc = "" /\ Len(ar.x) > 0

\* the function attributes voigt_line leaves behind
voigt_line_attrs(st, width, q, start, stop, step) ==
    IF voigt_line_evaluates(width, q, start, stop, step)
    THEN faddeeva_init(st) ELSE st

(* -------------------------- the WebMOREST object ---------------------- *)
MinMajorVersion == 24                \* if major_version < 24

Unset == "unset"                     \* an attribute that was never assigned
NoObject == [state |-> "none", base_url |-> Unset, auth |-> Unset,
             init_javascript |-> Unset, callback_listener |-> Unset,
             callback_port |-> Unset, websocket_response_queue |-> Unset]
NoCall == [op |-> "none"]

\* __init__ on a fresh object.  The login is answered with a token
\* (login = "ok") or with an HTTP error, which r.raise_for_status() raises
\* before any attribute is stored; the IPython attributes are stored only
\* if has_ipython
constructor(g, login, token) ==
    IF login # "ok"
    THEN [exc |-> "HTTPError", self |-> [NoObject EXCEPT !.state = "partial"]]
    ELSE [exc  |-> "",
          self |-> [state    |-> "live",
                    base_url |-> "base_url",
                    auth     |-> token,
                    init_javascript   |-> IF g THEN "True" ELSE Unset,
                    callback_listener |-> IF g THEN "None" ELSE Unset,
                    callback_port     |-> Unset,
                    websocket_response_queue |-> Unset]]

\* (mutant) the destructor checks the response as every other request does
destructor_checked(st, resp) ==
    IF st.base_url = Unset
    THEN [exc |-> "AttributeError", deletes |-> << >>,
          self |-> [st EXCEPT !.state = "dead"]]
    ELSE IF resp # "ok"
    THEN [exc |-> "HTTPError", deletes |-> << st.auth >>,
          self |-> [st EXCEPT !.state = "dead"]]
    ELSE [exc |-> "", deletes |-> << st.auth >>,
          self |-> [st EXCEPT !.state = "dead"]]

\* __del__: requests.delete(self._base_url + '/sessions', params=self._auth)
\* with no raise_for_status; then the listener, if any, is closed.  Reading
\* an attribute that was never assigned raises AttributeError.  deletes is
\* the sequence of tokens of the DELETE /sessions requests issued
destructor(st, resp) ==
    IF st.base_url = Unset
    THEN [exc |-> "AttributeError", deletes |-> << >>,
          self |-> [st EXCEPT !.state = "dead"]]
    ELSE IF st.callback_listener = Unset
    THEN [exc |-> "AttributeError", deletes |-> << st.auth >>,
          self |-> [st EXCEPT !.state = "dead"]]
    ELSE [exc |-> "", deletes |-> << st.auth >>,
          self |-> [st EXCEPT !.state = "dead",
                              !.callback_listener =
                                  IF st.callback_listener = "None"
                                  THEN "None" ELSE "closed"]]

\* _check_ipython
_check_ipython(g) == IF ~g THEN "NotImplementedError" ELSE ""

\* (mutant) the flag is left set after the injection
_inject_javascript_again(g, st, env) ==
    IF st.init_javascript # "True"
    THEN [exc |-> "", g |-> g, self |-> st, eff |-> << >>]
    ELSE IF ~env.status_ok
    THEN [exc |-> "HTTPError", g |-> g, self |-> st,
          eff |-> << "status_request" >>]
    ELSE IF env.version < MinMajorVersion
    THEN [exc |-> "", g |-> FALSE, self |-> st,
          eff |-> << "status_request" >>]
    ELSE IF env.magic_ok
    THEN [exc |-> "", g |-> g, self |-> st,
          eff |-> << "status_request", "inject_javascript" >>]
    ELSE [exc |-> "", g |-> FALSE, self |-> st,
          eff |-> << "status_request" >>]

\* _inject_javascript on global g and attributes st; env says what the
\* server and the notebook answer.  eff lists what the call did
_inject_javascript(g, st, env) ==
    IF st.init_javascript # "True"
    THEN [exc |-> "", g |-> g, self |-> st, eff |-> << >>]
    ELSE IF ~env.status_ok
    THEN [exc |-> "HTTPError", g |-> g, self |-> st,
          eff |-> << "status_request" >>]
    ELSE IF env.version < MinMajorVersion
    THEN [exc |-> "", g |-> FALSE, self |-> st,
          eff |-> << "status_request" >>]
    ELSE IF env.magic_ok
    THEN [exc |-> "", g |-> g,
          self |-> [st EXCEPT !.init_javascript = "False"],
          eff |-> << "status_request", "inject_javascript" >>]
    ELSE [exc |-> "", g |-> FALSE, self |-> st,
          eff |-> << "status_request" >>]

\* _create_callback_listener: the port is stored, then serve() either
\* binds it or raises; after serve() the response queue is set to []
_create_callback_listener(st, env) ==
    IF env.serve_ok
    THEN [exc |-> "",
          self |-> [st EXCEPT !.callback_port = env.port,
                              !.callback_listener = "open",
                              !.websocket_response_queue = << >>],
          eff |-> << "create_listener" >>]
    ELSE [exc |-> "OSError",
          self |-> [st EXCEPT !.callback_port = env.port],
          eff |-> << >>]

WAVEFUNCTION_PROPERTIES ==
    {"mo", "nao", "nho", "nbo", "esp", "nucleophilic", "electrophilic",
     "radical"}
SURFACE_PROPERTIES == {"esp", "nucleophilic", "electrophilic", "radical"}
SpectrumProperties ==
    {"ir_spectrum", "raman_spectrum", "vcd_spectrum", "uvvis_spectrum",
     "hnmr_spectrum", "cnmr_spectrum"}
\* the names the if/elif chain of display_job_property accepts
PropertyNames ==
    {"geometry", "dipole_moment", "partial_charges", "vibrational_mode"}
        \cup WAVEFUNCTION_PROPERTIES \cup SpectrumProperties

NoJavascript == [command |-> "none"]

\* the command of the generated Javascript that takes the screenshot, with
\* the port and the index it embeds: _set_moledit_wavefunction for the
\* wavefunction properties (index 0 for a surface), else
\* _display_datagrapher_screenshot for a "...spectrum" and
\* _display_moledit_screenshot for the rest
javascript_string(st, property_name, property_index) ==
    IF property_name \in WAVEFUNCTION_PROPERTIES
    THEN [command |-> "_set_moledit_wavefunction",
          port    |-> st.callback_port,
          index   |-> IF property_name \in SURFACE_PROPERTIES
                      THEN 0 ELSE property_index]
    ELSE IF property_name \in SpectrumProperties
    THEN [command |-> "_display_datagrapher_screenshot",
          port    |-> st.callback_port,
          index   |-> property_index]
    ELSE [command |-> "_display_moledit_screenshot",
          port    |-> st.callback_port,
          index   |-> property_index]

\* (mutant) the surface override comes before the test of the index
display_body_override_first(st, env) ==
    LET index == IF env.property_name \in SURFACE_PROPERTIES
                 THEN 0 ELSE env.property_index
    IN  IF ~env.jobs_ok
        THEN [exc |-> "HTTPError", eff |-> << "geometry_request" >>,
              js |-> NoJavascript]
        ELSE IF env.property_name \notin SURFACE_PROPERTIES /\ index <= 0
        THEN [exc |-> "ValueError",
              eff |-> << "geometry_request", "results_request" >>,
              js |-> NoJavascript]
        ELSE IF env.property_name \notin PropertyNames
        THEN [exc |-> "ValueError",
              eff |-> << "geometry_request", "results_request" >>,
              js |-> NoJavascript]
        ELSE [exc |-> "",
              eff |-> << "geometry_request", "results_request",
                         "display_javascript", "await_response" >>,
              js |-> javascript_string(st, env.property_name, index)]

\* lines 359-476: the job requests, the test of property_index, the
\* Javascript generated for property_name, its display and the wait for
\* the callback
display_body(st, env) ==
    IF ~env.jobs_ok
    THEN [exc |-> "HTTPError", eff |-> << "geometry_request" >>,
          js |-> NoJavascript]
    ELSE IF env.property_index <= 0
    THEN [exc |-> "ValueError",
          eff |-> << "geometry_request", "results_request" >>,
          js |-> NoJavascript]
    ELSE IF env.property_name \notin PropertyNames
    THEN [exc |-> "ValueError",
          eff |-> << "geometry_request", "results_request" >>,
          js |-> NoJavascript]
    ELSE [exc |-> "",
          eff |-> << "geometry_request", "results_request",
                     "display_javascript", "await_response" >>,
          js |-> javascript_string(st, env.property_name,
                                   env.property_index)]

\* (mutant) the version check is dropped from the call
display_unchecked(g, st, env) ==
    LET lis  == IF st.callback_listener = "None"
                THEN _create_callback_listener(st, env)
                ELSE [exc |-> "", self |-> st, eff |-> << >>]
        body == display_body(lis.self, env)
    IN  IF lis.exc # ""
        THEN [exc |-> lis.exc, g |-> g, self |-> lis.self, eff |-> lis.eff,
              js |-> NoJavascript]
        ELSE [exc |-> body.exc, g |-> g, self |-> lis.self,
              eff |-> lis.eff \o body.eff, js |-> body.js]

\* display_job_property on global g and attributes st
display_job_property(g, st, env) ==
    LET inj  == _inject_javascript(g, st, env)
        lis  == IF inj.self.callback_listener = "None"
                THEN _create_callback_listener(inj.self, env)
                ELSE [exc |-> "", self |-> inj.self, eff |-> << >>]
        body == display_body(lis.self, env)
    IN  IF _check_ipython(g) # ""
        THEN [exc |-> _check_ipython(g), g |-> g, self |-> st, eff |-> << >>,
              js |-> NoJavascript]
        ELSE IF inj.exc # ""
        THEN [exc |-> inj.exc, g |-> inj.g, self |-> inj.self,
              eff |-> inj.eff, js |-> NoJavascript]
        ELSE IF lis.exc # ""
        THEN [exc |-> lis.exc, g |-> inj.g, self |-> lis.self,
              eff |-> inj.eff \o lis.eff, js |-> NoJavascript]
        ELSE [exc |-> body.exc, g |-> inj.g, self |-> lis.self,
              eff |-> inj.eff \o lis.eff \o body.eff, js |-> body.js]

\* the message the Javascript sends back for request number req: a JSON
\* object whose imageURI is "<header>,<base64 of the image>"
callback_message(req) ==
    [imageURI |-> << "data:image/png;base64", [b64 |-> req] >>]

\* json.loads, result['imageURI'].split(",",2)[1], b64decode, EmbeddedImage
EmbeddedImage(json_msg) ==
    [type |-> "EmbeddedImage", data |-> json_msg.imageURI[2].b64]

NoValue == [type |-> "unset"]        \* the call has not returned a value
NoneValue == [type |-> "NoneType"]   \* a bare return

TIMEOUT == 10                        \* TIMEOUT = 10

\* (mutant) the newest message is taken
check_response_newest(i, queue) ==
    IF Len(queue) > 0
    THEN [i |-> i + 1, json_msg |-> Some(queue[Len(queue)]),
          queue |-> SubSeq(queue, 1, Len(queue) - 1), over |-> TRUE]
    ELSE [i |-> i + 1, json_msg |-> None, queue |-> queue,
          over |-> i + 1 >= TIMEOUT]

\* one pass of the loop of _process_callback_response, made after i earlier
\* passes, once its sleep has returned: a queued message is popped from
\* the front and ends the loop, else the loop ends after TIMEOUT passes
check_response(i, queue) ==
    IF Len(queue) > 0
    THEN [i |-> i + 1, json_msg |-> Some(Head(queue)),
          queue |-> Tail(queue), over |-> TRUE]
    ELSE [i |-> i + 1, json_msg |-> None, queue |-> queue,
          over |-> i + 1 >= TIMEOUT]

TimeoutText == "Timeout waiting for response from Javascript"

\* what _process_callback_response prints and returns after the loop
callback_result(json_msg) ==
    IF json_msg = None
    THEN [printed |-> TimeoutText, value |-> NoneValue]
    ELSE [printed |-> "", value |-> EmbeddedImage(Get(json_msg))]

(* -------------------------------- state ------------------------------- *)
VARIABLES
    run_yet, N, L, vals, poly,   \* the attributes of _faddeeva
    builds,                      \* how often the table has been built
    ret,                         \* the call in progress and what it gave
    tpc, tz, tloc, tres,         \* threads inside _faddeeva: position,
                                 \* argument, locals, result
    wpc, wentry, wjobs,          \* wait_for_jobs: position, entry point,
    wstatus, wdone, wi,          \* job_numbers, status, done, loop index
    wfetched, wslept,            \* last status fetched per job; has slept
    srv,                         \* the server's status of every job
    has_ipython,                 \* the module global has_ipython
    self,                        \* the attributes of a WebMOREST object
    call,                        \* the method call in progress on it
    notebook                     \* the notebook page and the sockets of
                                 \* the object: Javascript injected and
                                 \* displayed, responses due, listeners

fadVars == << run_yet, N, L, vals, poly >>
raceVars == << tpc, tz, tloc, tres >>
waitVars == << wpc, wentry, wjobs, wstatus, wdone, wi, wfetched, wslept, srv >>
objVars == << has_ipython, self, call, notebook >>
vars == << run_yet, N, L, vals, poly, builds, ret,
           tpc, tz, tloc, tres,
           wpc, wentry, wjobs, wstatus, wdone, wi, wfetched, wslept, srv,
           has_ipython, self, call, notebook >>

\* nothing injected or displayed, no listener bound
NoNotebook == [displayed |-> 0, pending |-> {}, injections |-> 0,
               listeners |-> 0, bound |-> Unset]

attrs == [run_yet |-> run_yet, N |-> N, L |-> L, vals |-> vals, poly |-> poly]

\* lines 1030-1034
FreshAttrs == [run_yet |-> FALSE, N |-> None, L |-> None,
               vals |-> None, poly |-> None]

\* store the attributes a call leaves behind; built says that the call ran
\* the body of `if _faddeeva.run_yet == False`
SetAttrs(st, built) ==
    /\ run_yet' = st.run_yet
    /\ N' = st.N
    /\ L' = st.L
    /\ vals' = st.vals
    /\ poly' = st.poly
    /\ builds' = IF built THEN builds + 1 ELSE builds

Idle == [fn |-> "idle"]

(* ------------------------------- inputs ------------------------------- *)
Centers     == {Num(1), Num(5)}
Intensities == {-Num(1), Num(1), Num(5)}
Widths      == {-Num(2), 0, Num(2), Num(4)}
Ratios      == {-Num(1), 0, Unit \div 8, Unit \div 2, Unit - Unit \div 8,
                Num(1), Num(2), Num(3)}
Starts      == {0, Num(1), FlQ(13, 10), Num(5)}
Stops       == {Num(1), FlQ(13, 10), Num(5), Num(10)}
Steps       == {-Num(1), -FlQ(1, 10), 0, FlQ(1, 10), Num(1), Num(3)}
FaddeevaArgs == {[re |-> 0, im |-> 0, sig |-> Unit],
                 [re |-> Num(1), im |-> Unit \div 2, sig |-> Unit]}

\* the axis is short enough to be enumerated in the model
AxisOk(start, stop, step) ==
    step = 0 \/ arange_len(start, stop, step) <= MaxPts

Args(fn, c, i, w, q, a, b, s) ==
    [fn |-> fn, center |-> c, intensity |-> i, width |-> w, q |-> q,
     start |-> a, stop |-> b, step |-> s]

(* ------------------------------- actions ------------------------------ *)
NThreads == 2      \* threads that call _faddeeva concurrently
NJobs    == 2      \* job numbers known to the server
MaxList  == 2      \* longest job_numbers list passed to wait_for_jobs
MaxRequests == 2   \* display_job_property calls made on one object

Threads == 1..NThreads
Jobs == 1..NJobs
JobLists == UNION {[1..n -> Jobs] : n \in 0..MaxList}
Final == {"complete", "failed"}
Statuses == {"running", "complete", "failed"}

NoLocals == [a |-> None, Z |-> None, p |-> None]

Init ==
    /\ run_yet = FALSE
    /\ N = None
    /\ L = None
    /\ vals = None
    /\ poly = None
    /\ builds = 0
    /\ ret = Idle
    /\ tpc = [t \in Threads |-> "idle"]
    /\ tz = [t \in Threads |-> None]
    /\ tloc = [t \in Threads |-> NoLocals]
    /\ tres = [t \in Threads |-> None]
    /\ wpc = "idle"
    /\ wentry = ""
    /\ wjobs = << >>
    /\ wstatus = [j \in {} |-> ""]
    /\ wdone = FALSE
    /\ wi = 0
    /\ wfetched = [j \in Jobs |-> ""]
    /\ wslept = FALSE
    /\ srv = [j \in Jobs |-> "running"]
    /\ has_ipython \in BOOLEAN
    /\ self = NoObject
    /\ call = NoCall
    /\ notebook = NoNotebook

CallLorentz ==
    /\ ret = Idle
    /\ \E c \in Centers, i \in Intensities, w \in Widths,
          a \in Starts, b \in Stops, s \in Steps :
          /\ AxisOk(a, b, s)
          /\ ret' = [fn |-> "lorentz_line", reuse |-> run_yet,
                     args |-> Args("lorentz_line", c, i, w, 0, a, b, s),
                     out |-> lorentz_line(c, i, w, a, b, s)]
    /\ UNCHANGED << fadVars, builds, raceVars, waitVars, objVars >>

CallGauss ==
    /\ ret = Idle
    /\ \E c \in Centers, i \in Intensities, w \in Widths,
          a \in Starts, b \in Stops, s \in Steps :
          /\ AxisOk(a, b, s)
          /\ ret' = [fn |-> "gauss_line", reuse |-> run_yet,
                     args |-> Args("gauss_line", c, i, w, 0, a, b, s),
                     out |-> gauss_line(c, i, w, a, b, s)]
    /\ UNCHANGED << fadVars, builds, raceVars, waitVars, objVars >>

CallVoigt ==
    /\ ret = Idle
    /\ \E c \in Centers, i \in Intensities, w \in Widths, q \in Ratios,
          a \in Starts, b \in Stops, s \in Steps :
          /\ AxisOk(a, b, s)
          /\ ret' = [fn |-> "voigt_line", reuse |-> run_yet,
                     args |-> Args("voigt_line", c, i, w, q, a, b, s),
                     out |-> voigt_line(attrs, c, i, w, q, a, b, s)]
          /\ SetAttrs(voigt_line_attrs(attrs, w, q, a, b, s),
                      ~run_yet /\ voigt_line_evaluates(w, q, a, b, s))
    /\ UNCHANGED << raceVars, waitVars, objVars >>

\* the documented call
\*   lorentz_line(center=1000, intensity=5, width=10,
\*                start=990, stop=1010, step=1)
DocumentedCall ==
    Args("lorentz_line", Num(1000), Num(5), Num(10), 0,
         Num(990), Num(1010), Num(1))

CallLorentzDocumented ==
    /\ ret = Idle
    /\ LET a == DocumentedCall
       IN  /\ AxisOk(a.start, a.stop, a.step)
           /\ ret' = [fn |-> "lorentz_line", reuse |-> run_yet, args |-> a,
                      out |-> lorentz_line(a.center, a.intensity, a.width,
                                           a.start, a.stop, a.step)]
    /\ UNCHANGED << fadVars, builds, raceVars, waitVars, objVars >>

\* a direct call _faddeeva(z)
CallFaddeeva ==
    /\ ret = Idle
    /\ \E z \in FaddeevaArgs :
          ret' = [fn |-> "_faddeeva", reuse |-> run_yet, args |-> z,
                  out |-> faddeeva_eval(faddeeva_init(attrs), z)]
    /\ SetAttrs(faddeeva_init(attrs), ~run_yet)
    /\ UNCHANGED << raceVars, waitVars, objVars >>

\* the caller takes the result (or the exception) and goes on
Return ==
    /\ ret # Idle
    /\ ret' = Idle
    /\ UNCHANGED << fadVars, builds, raceVars, waitVars, objVars >>

Next ==
    \/ CallLorentz \/ CallLorentzDocumented \/ CallGauss \/ CallVoigt
    \/ CallFaddeeva \/ Return

Spec == Init /\ [][Next]_vars

(* ------------------- concurrent calls of _faddeeva ------------------- *)
\* Threads run _faddeeva(z) statement by statement on the shared function
\* attributes; nothing in the source orders them (no lock).
Goto(t, l) == tpc' = [tpc EXCEPT ![t] = l]

\* a thread enters _faddeeva(z)
T_Call(t) ==
    /\ tpc[t] = "idle"
    /\ \E z \in FaddeevaArgs : tz' = [tz EXCEPT ![t] = Some(z)]
    /\ tloc' = [tloc EXCEPT ![t] = NoLocals]
    /\ tres' = [tres EXCEPT ![t] = None]
    /\ Goto(t, "l762")
    /\ UNCHANGED << fadVars, builds, ret, waitVars, objVars >>

\* line 762: if _faddeeva.run_yet == False
T_l762(t) ==
    /\ tpc[t] = "l762"
    /\ Goto(t, IF run_yet = FALSE THEN "l763" ELSE "l1024")
    /\ UNCHANGED << fadVars, builds, ret, tz, tloc, tres, waitVars, objVars >>

\* line 763: _faddeeva.run_yet = True
T_l763(t) ==
    /\ tpc[t] = "l763"
    /\ run_yet' = TRUE
    /\ builds' = builds + 1
    /\ Goto(t, "l764")
    /\ UNCHANGED << N, L, vals, poly, ret, tz, tloc, tres, waitVars, objVars >>

\* line 764: _faddeeva.N = 1000
T_l764(t) ==
    /\ tpc[t] = "l764"
    /\ N' = Some(FaddeevaN)
    /\ Goto(t, "l765")
    /\ UNCHANGED << run_yet, L, vals, poly, builds, ret, tz, tloc, tres,
                    waitVars, objVars >>

\* line 765: _faddeeva.L = np.sqrt(_faddeeva.N / np.sqrt(2))
T_l765(t) ==
    /\ tpc[t] = "l765"
    /\ L' = Some(np_sqrt((Num(Get(N)) * Unit) \div np_sqrt(Num(2))))
    /\ Goto(t, "l767")
    /\ UNCHANGED << run_yet, N, vals, poly, builds, ret, tz, tloc, tres,
                    waitVars, objVars >>

\* lines 767-1020: l = [...]; a = np.array(l); a = np.flip(a)
T_l767(t) ==
    /\ tpc[t] = "l767"
    /\ tloc' = [tloc EXCEPT ![t].a = Some(np_flip(np_array_l))]
    /\ Goto(t, "l1021")
    /\ UNCHANGED << fadVars, builds, ret, tz, tres, waitVars, objVars >>

\* line 1021: _faddeeva.vals = a
T_l1021(t) ==
    /\ tpc[t] = "l1021"
    /\ vals' = tloc[t].a
    /\ Goto(t, "l1022")
    /\ UNCHANGED << run_yet, N, L, poly, builds, ret, tz, tloc, tres,
                    waitVars, objVars >>

\* line 1022: _faddeeva.poly = np.polynomial.polynomial.Polynomial(a)
T_l1022(t) ==
    /\ tpc[t] = "l1022"
    /\ poly' = Some(Polynomial(Get(tloc[t].a)))
    /\ Goto(t, "l1024")
    /\ UNCHANGED << run_yet, N, L, vals, builds, ret, tz, tloc, tres,
                    waitVars, objVars >>

\* line 1024: Z = (_faddeeva.L + 1j * z) / (_faddeeva.L - 1j * z);
\* None + complex raises TypeError
T_l1024(t) ==
    /\ tpc[t] = "l1024"
    /\ IF L = None
       THEN /\ tres' = [tres EXCEPT ![t] = Some([exc |-> "TypeError"])]
            /\ Goto(t, "raised")
            /\ UNCHANGED tloc
       ELSE /\ tloc' = [tloc EXCEPT ![t].Z = L]
            /\ Goto(t, "l1025")
            /\ UNCHANGED tres
    /\ UNCHANGED << fadVars, builds, ret, tz, waitVars, objVars >>

\* line 1025: p = _faddeeva.poly(Z); calling None raises TypeError
T_l1025(t) ==
    /\ tpc[t] = "l1025"
    /\ IF poly = None
       THEN /\ tres' = [tres EXCEPT ![t] = Some([exc |-> "TypeError"])]
            /\ Goto(t, "raised")
            /\ UNCHANGED tloc
       ELSE /\ tloc' = [tloc EXCEPT ![t].p = poly]
            /\ Goto(t, "l1026")
            /\ UNCHANGED tres
    /\ UNCHANGED << fadVars, builds, ret, tz, waitVars, objVars >>

\* lines 1026-1028: w = 2 * p / (L - 1j*z)**2 + ...; return(w)
T_l1026(t) ==
    /\ tpc[t] = "l1026"
    /\ tres' = [tres EXCEPT ![t] =
                  Some(faddeeva_eval([attrs EXCEPT !.poly = tloc[t].p],
                                     Get(tz[t])))]
    /\ Goto(t, "done")
    /\ UNCHANGED << fadVars, builds, ret, tz, tloc, waitVars, objVars >>

\* the caller takes the result or the exception
T_Return(t) ==
    /\ tpc[t] \in {"done", "raised"}
    /\ Goto(t, "idle")
    /\ UNCHANGED << fadVars, builds, ret, tz, tloc, tres, waitVars, objVars >>

NextRace ==
    \E t \in Threads :
        \/ T_Call(t) \/ T_l762(t) \/ T_l763(t) \/ T_l764(t) \/ T_l765(t)
        \/ T_l767(t) \/ T_l1021(t) \/ T_l1022(t) \/ T_l1024(t)
        \/ T_l1025(t) \/ T_l1026(t) \/ T_Return(t)

SpecRace == Init /\ [][NextRace]_vars

(* --------------------------- wait_for_jobs ---------------------------- *)
\* (mutant) done is overwritten by the last job looked at
done_overwritten(done, st) == st = "complete" \/ st = "failed"

\* lines 536-537: if status[job_number] != 'complete' and
\* status[job_number] != 'failed': done = False
done_after(done, st) ==
    IF st # "complete" /\ st # "failed" THEN FALSE ELSE done

\* (mutant) the loop test ignores done
while_forever(done) == TRUE

\* line 531: while not done
while_continues(done) == ~done

\* lines 528-529: status[job_number] = '' for every listed job
status_init(jobs) == [j \in {jobs[k] : k \in 1..Len(jobs)} |-> ""]

\* wait_for_jobs(job_numbers), lines 525-529: status = {}; done = False;
\* every listed job gets the status ''
WaitForJobs ==
    /\ wpc = "idle"
    /\ \E jobs \in JobLists :
          /\ wjobs' = jobs
          /\ wstatus' = status_init(jobs)
    /\ wentry' = "wait_for_jobs"
    /\ wdone' = FALSE
    /\ wi' = 0
    /\ wfetched' = [j \in Jobs |-> ""]
    /\ wslept' = FALSE
    /\ wpc' = "while"
    /\ UNCHANGED << fadVars, builds, ret, raceVars, objVars, srv >>

\* wait_for_job(job_number): self.wait_for_jobs([job_number], ...)
WaitForJob ==
    /\ wpc = "idle"
    /\ \E n \in Jobs :
          /\ wjobs' = << n >>
          /\ wstatus' = status_init(<< n >>)
    /\ wentry' = "wait_for_job"
    /\ wdone' = FALSE
    /\ wi' = 0
    /\ wfetched' = [j \in Jobs |-> ""]
    /\ wslept' = FALSE
    /\ wpc' = "while"
    /\ UNCHANGED << fadVars, builds, ret, raceVars, objVars, srv >>

\* lines 531-533: while not done: done = True; for job_number in ...
WhileTest ==
    /\ wpc = "while"
    /\ IF while_continues(wdone)
       THEN /\ wdone' = TRUE
            /\ wi' = 1
            /\ wpc' = "for"
       ELSE /\ wpc' = "returned"
            /\ UNCHANGED << wdone, wi >>
    /\ UNCHANGED << fadVars, builds, ret, raceVars, objVars,
                    wentry, wjobs, wstatus, wfetched, wslept, srv >>

\* lines 534-537 for a job not yet known to be finished: the status is
\* fetched with get_job_info and done is cleared unless it is final
ForFetch ==
    /\ wpc = "for"
    /\ wi <= Len(wjobs)
    /\ wstatus[wjobs[wi]] \notin Final
    /\ wstatus' = [wstatus EXCEPT ![wjobs[wi]] = srv[wjobs[wi]]]
    /\ wfetched' = [wfetched EXCEPT ![wjobs[wi]] = srv[wjobs[wi]]]
    /\ wdone' = done_after(wdone, srv[wjobs[wi]])
    /\ wi' = wi + 1
    /\ UNCHANGED << fadVars, builds, ret, raceVars, objVars,
                    wpc, wentry, wjobs, wslept, srv >>

\* get_job_info raises (r.raise_for_status()): the exception leaves
\* wait_for_jobs
ForFetchRaises ==
    /\ wpc = "for"
    /\ wi <= Len(wjobs)
    /\ wstatus[wjobs[wi]] \notin Final
    /\ wpc' = "raised"
    /\ UNCHANGED << fadVars, builds, ret, raceVars, objVars,
                    wentry, wjobs, wstatus, wdone, wi, wfetched, wslept, srv >>

\* line 534 for a job already seen finished: nothing is fetched
ForSkip ==
    /\ wpc = "for"
    /\ wi <= Len(wjobs)
    /\ wstatus[wjobs[wi]] \in Final
    /\ wi' = wi + 1
    /\ UNCHANGED << fadVars, builds, ret, raceVars, objVars,
                    wpc, wentry, wjobs, wstatus, wdone, wfetched, wslept, srv >>

\* lines 538-539: if not done: sleep(poll_frequency); back to the test
ForEnd ==
    /\ wpc = "for"
    /\ wi > Len(wjobs)
    /\ wslept' = (wslept \/ ~wdone)
    /\ wpc' = "while"
    /\ UNCHANGED << fadVars, builds, ret, raceVars, objVars,
                    wentry, wjobs, wstatus, wdone, wi, wfetched, srv >>

\* the caller goes on after the return or the exception
WaitOver ==
    /\ wpc \in {"returned", "raised"}
    /\ wpc' = "idle"
    /\ UNCHANGED << fadVars, builds, ret, raceVars, objVars,
                    wentry, wjobs, wstatus, wdone, wi, wfetched, wslept, srv >>

\* the server changes the status of a job
ServerStep ==
    /\ \E j \in Jobs, st \in Statuses : srv' = [srv EXCEPT ![j] = st]
    /\ UNCHANGED << fadVars, builds, ret, raceVars, objVars,
                    wpc, wentry, wjobs, wstatus, wdone, wi, wfetched, wslept >>

NextWait ==
    \/ WaitForJobs \/ WaitForJob \/ WhileTest \/ ForFetch \/ ForFetchRaises
    \/ ForSkip \/ ForEnd \/ WaitOver \/ ServerStep

SpecWait == Init /\ [][NextWait]_vars

\* the interpreter keeps running the loop: the test, a fetch that is
\* answered, a skip and the end of a pass (sleep returns) each happen when
\* they stay possible; calls and the server's changes are not forced
SpecWaitLive ==
    /\ Init
    /\ [][NextWait]_vars
    /\ WF_vars(WhileTest)
    /\ WF_vars(ForFetch)
    /\ WF_vars(ForSkip)
    /\ WF_vars(ForEnd)

(* ------------------------ calls on the object ------------------------- *)
Tokens == {"token1", "token2"}
Ports == {"port1", "port2"}
Versions == {MinMajorVersion - 1, MinMajorVersion}
\* property_name: a structure, a surface, an orbital, a spectrum, and a
\* name the method does not know
PropertyArgs == {"geometry", "esp", "mo", "ir_spectrum", "density"}
IndexArgs == {0, 1}
Envs == [version : Versions, status_ok : BOOLEAN, magic_ok : BOOLEAN,
         serve_ok : BOOLEAN, port : Ports, jobs_ok : BOOLEAN,
         property_name : PropertyArgs, property_index : IndexArgs]

Count(eff, effect) == Cardinality({k \in 1..Len(eff) : eff[k] = effect})

\* WebMOREST(base_url, username, password)
Construct ==
    /\ call = NoCall
    /\ self.state \in {"none", "dead"}
    /\ \E login \in {"ok", "error"}, token \in Tokens :
          LET r == constructor(has_ipython, login, token)
          IN  /\ self' = r.self
              /\ call' = [op |-> "__init__", exc |-> r.exc, before |-> self,
                          ipython |-> has_ipython]
    /\ notebook' = NoNotebook
    /\ UNCHANGED << fadVars, builds, ret, raceVars, waitVars, has_ipython >>

\* await rest.display_job_property(...), up to its first await inside
\* _process_callback_response.  The Javascript displayed is request number
\* req of the page, which answers it at some later time if the supporting
\* Javascript has been injected
DisplayJobProperty ==
    /\ call = NoCall
    /\ self.state = "live"
    /\ notebook.displayed < MaxRequests
    /\ \E env \in Envs :
          LET r   == display_job_property(has_ipython, self, env)
              shown == Count(r.eff, "display_javascript") > 0
              req == IF shown THEN notebook.displayed + 1 ELSE 0
          IN  /\ self' = r.self
              /\ has_ipython' = r.g
              /\ call' = [op |-> "display_job_property", exc |-> r.exc,
                          eff |-> r.eff, env |-> env, before |-> self,
                          ipython |-> has_ipython, js |-> r.js, req |-> req,
                          pc |-> IF Count(r.eff, "await_response") > 0
                                 THEN "awaiting" ELSE "done",
                          i |-> 0, checked |-> << >>, printed |-> "",
                          value |-> NoValue]
              /\ notebook' =
                    [displayed  |-> IF shown THEN req ELSE notebook.displayed,
                     pending    |-> IF shown /\ r.self.init_javascript = "False"
                                    THEN notebook.pending \cup {req}
                                    ELSE notebook.pending,
                     injections |-> notebook.injections
                                      + Count(r.eff, "inject_javascript"),
                     listeners  |-> notebook.listeners
                                      + Count(r.eff, "create_listener"),
                     bound      |-> IF Count(r.eff, "create_listener") > 0
                                    THEN env.port ELSE notebook.bound]
    /\ UNCHANGED << fadVars, builds, ret, raceVars, waitVars >>

Awaiting == call.op = "display_job_property" /\ call.pc = "awaiting"

\* asyncio.sleep(1) returns inside _process_callback_response and the
\* queue is looked at; when the loop is over the method returns.  checked
\* keeps the queue as each pass found it
CheckResponse ==
    /\ Awaiting
    /\ call.i < TIMEOUT
    /\ LET r   == check_response(call.i, self.websocket_response_queue)
           res == callback_result(r.json_msg)
       IN  /\ self' = [self EXCEPT !.websocket_response_queue = r.queue]
           /\ call' = [call EXCEPT
                         !.i = r.i,
                         !.checked =
                             Append(@, self.websocket_response_queue),
                         !.pc = IF r.over THEN "done" ELSE "awaiting",
                         !.printed = IF r.over THEN res.printed ELSE @,
                         !.value = IF r.over THEN res.value ELSE @]
    /\ UNCHANGED << fadVars, builds, ret, raceVars, waitVars,
                    has_ipython, notebook >>

\* _websocket_callback: the page answers a request it was given, now or
\* long after the call that displayed it gave up
WebsocketMessage ==
    /\ self.state = "live"
    /\ self.callback_listener = "open"
    /\ \E req \in notebook.pending :
          /\ self' = [self EXCEPT !.websocket_response_queue =
                                      Append(@, callback_message(req))]
          /\ notebook' = [notebook EXCEPT !.pending = @ \ {req}]
    /\ UNCHANGED << fadVars, builds, ret, raceVars, waitVars,
                    has_ipython, call >>

\* the object is collected: __del__ runs, also on an object whose
\* constructor raised
Destroy ==
    /\ call = NoCall
    /\ self.state \in {"live", "partial"}
    /\ \E resp \in {"ok", "error"} :
          LET r == destructor(self, resp)
          IN  /\ self' = r.self
              /\ call' = [op |-> "__del__", exc |-> r.exc,
                          deletes |-> r.deletes, resp |-> resp,
                          before |-> self, ipython |-> has_ipython]
    /\ UNCHANGED << fadVars, builds, ret, raceVars, waitVars,
                    has_ipython, notebook >>

\* the caller goes on
CallOver ==
    /\ call # NoCall
    /\ ~Awaiting
    /\ call' = NoCall
    /\ UNCHANGED << fadVars, builds, ret, raceVars, waitVars,
                    has_ipython, self, notebook >>

NextObject ==
    \/ Construct
    \/ DisplayJobProperty
    \/ CheckResponse
    \/ WebsocketMessage
    \/ Destroy
    \/ CallOver

SpecObject == Init /\ [][NextObject]_vars

(* ======================= properties of the calls ====================== *)
LineFns == {"lorentz_line", "gauss_line", "voigt_line"}

IsLine == ret.fn \in LineFns
Returned == IsLine /\ ret.out.exc = ""

\* the points start + i*step, i = 0, 1, ..., that lie strictly below stop,
\* in exact arithmetic (step > 0, start < stop)
ExactAxis(start, stop, step) ==
    [j \in 1..((stop - start + step - 1) \div step) |-> start + (j - 1) * step]

\* the shape function of a call's parameters at the point x
ShapeAt(a, x) ==
    CASE a.fn = "lorentz_line" ->
            _arb_lorentz(a.center, a.intensity, a.width, x)
      [] a.fn = "gauss_line" ->
            _arb_gaussian(a.center, a.intensity, a.width, x)
      [] a.fn = "voigt_line" ->
            voigt_value(attrs, _voigt_decoder(a.q, a.width),
                        a.center, a.intensity, x)

\* C1: with step > 0 and start < stop the returned x is exactly
\* start, start+step, ... holding every such point strictly below stop and
\* no other point.
C1_AxisHalfOpen ==
    (Returned /\ ret.args.width > 0
              /\ ret.args.step > 0 /\ ret.args.start < ret.args.stop)
        => ret.out.x = ExactAxis(ret.args.start, ret.args.stop, ret.args.step)

\* C2: a call that returns gives x and y of equal length with y[i] the
\* shape function of the call's parameters at x[i], in the order of x.
C2_Aligned ==
    Returned =>
        /\ Len(ret.out.y) = Len(ret.out.x)
        /\ \A j \in 1..Len(ret.out.x) :
              ret.out.y[j] = ShapeAt(ret.args, ret.out.x[j])

C2_Witness ==
    /\ Returned
    /\ ret.fn = "voigt_line"
    /\ Len(ret.out.x) >= 3
    /\ ret.out.y[1] # ret.out.y[3]

\* C3: when the axis enumerates zero points (start = stop) the call
\* returns normally with x and y both of length zero.
C3_EmptyAxisReturns ==
    (IsLine /\ ret.args.width > 0
            /\ ret.args.start = ret.args.stop /\ ret.args.step > 0)
        => (ret.out.exc = "" /\ ret.out.x = << >> /\ ret.out.y = << >>)

\* C7: a call with step = 0 ends with an error (np.arange's
\* ZeroDivisionError) and returns no sample result.
C7_ZeroStepRaises ==
    (IsLine /\ ret.args.step = 0)
        => (ret.out.exc = "ZeroDivisionError"
            /\ ret.out.x = << >> /\ ret.out.y = << >>)

C7_Witness ==
    /\ IsLine
    /\ ret.args.step = 0
    /\ ret.args.start < ret.args.stop
    /\ ret.out.exc = "ZeroDivisionError"

\* C8: a call with width <= 0 fails with an error for every axis and never
\* returns a sample result.
C8_BadWidthRaises ==
    (IsLine /\ ret.args.width <= 0) => ret.out.exc # ""

\* the decoder divides by zero or yields a non-finite gamma or sigma
DecoderFails(q, k) ==
    LET d == _voigt_decoder(q, k)
    IN  d.exc # "" \/ d.gamma.t # "num" \/ d.sigma.t # "num"

\* the call raised, or returned y-values none of which is finite
NoFiniteResult ==
    \/ ret.out.exc # ""
    \/ /\ Len(ret.out.y) > 0
       /\ \A j \in 1..Len(ret.out.y) : ~ret.out.y[j].fin

\* C9 (as claimed): for every ratio q that is 0, 1 or outside (0,1), and
\* any width, the decoder fails and voigt_line never returns finite values.
C9_BadRatioFails ==
    (Returned /\ ret.fn = "voigt_line" /\ ret.args.width > 0
              /\ (ret.args.q <= 0 \/ ret.args.q >= Unit))
        => (DecoderFails(ret.args.q, ret.args.width) /\ NoFiniteResult)

\* C9 (amended): for q = 0 and for q = 1, and any width, the decoder
\* divides by zero (q = 1) or yields a NaN sigma (q = 0), and voigt_line
\* raises or returns only non-finite y-values.
C9_BoundaryRatioFails ==
    (ret.fn = "voigt_line" /\ ret.args.q \in {0, Unit})
        => (DecoderFails(ret.args.q, ret.args.width) /\ NoFiniteResult)

C9_Witness ==
    /\ ret.fn = "voigt_line"
    /\ ret.args.q = 0
    /\ ret.args.width > 0
    /\ ret.out.exc = ""
    /\ Len(ret.out.y) >= 2
    /\ \A j \in 1..Len(ret.out.y) : ~ret.out.y[j].fin

\* what the call recorded in r gives when it is the first call of the
\* process (no call before it, the table not yet built)
FreshResult(r) ==
    CASE r.fn = "lorentz_line" ->
            lorentz_line(r.args.center, r.args.intensity, r.args.width,
                         r.args.start, r.args.stop, r.args.step)
      [] r.fn = "gauss_line" ->
            gauss_line(r.args.center, r.args.intensity, r.args.width,
                       r.args.start, r.args.stop, r.args.step)
      [] r.fn = "voigt_line" ->
            voigt_line(FreshAttrs, r.args.center, r.args.intensity,
                       r.args.width, r.args.q,
                       r.args.start, r.args.stop, r.args.step)
      [] r.fn = "_faddeeva" ->
            faddeeva_eval(faddeeva_init(FreshAttrs), r.args)

\* C5: in a sequence of calls the table, N and L are built exactly once,
\* by the first evaluation, with N = 1000 the table's length; once built,
\* no later call modifies run_yet, N, L, vals or poly.
C5_BuiltOnce ==
    /\ [](run_yet => /\ builds = 1
                     /\ N = Some(FaddeevaN)
                     /\ Get(N) = TableLen
                     /\ L # None
                     /\ vals # None /\ Get(vals).len = Get(N)
                     /\ poly # None /\ Get(poly).coef = Get(vals))
    /\ [](~run_yet => /\ builds = 0
                      /\ attrs = FreshAttrs)
    /\ [][run_yet => UNCHANGED << fadVars, builds >>]_vars

C5_Witness ==
    /\ ret.fn \in {"_faddeeva", "voigt_line"}
    /\ ret.reuse
    /\ ret.out.exc = ""
    /\ builds = 1

\* C6: a call's result does not depend on the calls before it: it is what
\* the same call gives as the first call of the process, whether it builds
\* the table or reuses it.
C6_HistoryIndependent ==
    ret.fn \in LineFns \cup {"_faddeeva"} => ret.out = FreshResult(ret)

C6_Witness ==
    /\ ret.fn = "voigt_line"
    /\ ret.reuse
    /\ ret.out.exc = ""
    /\ Len(ret.out.y) >= 2
    /\ ret.out.y[1].fin

(* ------------------ properties of the concurrent calls ---------------- *)
InEval == {"l1024", "l1025", "l1026"}

\* C4: under any interleaving of concurrent first calls every call computes
\* its result from a fully built table and L: no call is past the test of
\* run_yet while L, vals or poly is still unset, none raises, and every
\* result is the one a single call gives.
C4_RaceSafe ==
    \A t \in Threads :
        /\ tpc[t] \in InEval => (L # None /\ vals # None /\ poly # None)
        /\ tpc[t] # "raised"
        /\ tpc[t] = "done" =>
              Get(tres[t]) = faddeeva_eval(faddeeva_init(FreshAttrs), Get(tz[t]))

(* ---------------------- properties of wait_for_jobs ------------------- *)
\* C10: whenever wait_for_jobs returns, the last status this call fetched
\* for every listed job is 'complete' or 'failed'; wait_for_job(n) is
\* wait_for_jobs([n]).
C10_ReturnsWhenAllFinished ==
    /\ wpc = "returned" =>
          \A k \in 1..Len(wjobs) : wfetched[wjobs[k]] \in Final
    /\ wentry = "wait_for_job" => Len(wjobs) = 1

C10_Witness ==
    /\ wpc = "returned"
    /\ Len(wjobs) = 2
    /\ wjobs[1] # wjobs[2]
    /\ wslept
    /\ wfetched[wjobs[1]] = "failed"
    /\ wfetched[wjobs[2]] = "complete"
    /\ srv[wjobs[1]] = "running"

InLoop == wpc \in {"while", "for"}

\* every listed job is finished on the server
ListedFinished == \A k \in 1..Len(wjobs) : srv[wjobs[k]] \in Final

\* C11: if from some point on every listed job reports 'complete' or
\* 'failed' and no status request fails, a running wait_for_jobs eventually
\* returns; and while a pass has fetched some other status the call does
\* not return: it sleeps and starts another pass.
C11_ReturnsOnceFinished ==
    /\ (<>[]ListedFinished /\ [](wpc # "raised"))
          => (InLoop ~> (wpc = "returned"))
    /\ [][(wpc = "for" /\ wi <= Len(wjobs) /\ wi' = wi + 1
             /\ wstatus'[wjobs[wi]] \notin Final)
          => (wpc' # "returned" /\ ~wdone')]_vars
    /\ [][(InLoop /\ ~wdone) => wpc' # "returned"]_vars

C11_Witness ==
    /\ wpc = "returned"
    /\ wentry = "wait_for_jobs"
    /\ Len(wjobs) = 1
    /\ wslept
    /\ ListedFinished
    /\ \E j \in Jobs : srv[j] \notin Final

(* ------------------- properties of the WebMOREST object --------------- *)
JobEffects == {"create_listener", "geometry_request", "results_request",
               "display_javascript", "await_response"}

Did(effect) == \E k \in 1..Len(call.eff) : call.eff[k] = effect

\* C12: a display_job_property call made while IPython is unavailable or
\* the server's major version is below 24 raises NotImplementedError and
\* creates no listener, issues no job request and displays no Javascript,
\* on the first call on an object as on later ones.
C12_RequiresIPythonAndWebMO24 ==
    (/\ call.op = "display_job_property"
     /\ call.env.status_ok
     /\ (~call.ipython \/ call.env.version < MinMajorVersion))
        => (/\ call.exc = "NotImplementedError"
            /\ \A effect \in JobEffects : ~Did(effect))

\* C13: destroying a successfully constructed object issues exactly one
\* DELETE /sessions request, carrying the token stored at construction
\* (the token is never replaced while the object lives), and the response
\* to it, failed or not, raises nothing: the destructor raises only for a
\* missing listener attribute.
C13_DestructorDeletesSession ==
    /\ []((call.op = "__del__" /\ call.before.state = "live")
            => (/\ call.deletes = << call.before.auth >>
                /\ call.before.auth \in Tokens
                /\ call.exc # "HTTPError"
                /\ (call.before.callback_listener # Unset => call.exc = "")))
    /\ [][self.state = "live" => self'.auth = self.auth]_vars

C13_Witness ==
    /\ call.op = "__del__"
    /\ call.before.state = "live"
    /\ call.before.callback_listener = "open"
    /\ call.resp = "error"
    /\ call.exc = ""
    /\ self.callback_listener = "closed"

(* ------------------- properties of the sampled shapes ----------------- *)
\* the points start + i*step, i = 0, 1, ..., that lie strictly above stop,
\* in exact arithmetic (step < 0, start > stop)
ExactAxisDown(start, stop, step) ==
    [j \in 1..((start - stop - step - 1) \div (-step)) |-> start + (j - 1) * step]

\* the sign of step does not lead from start towards stop
WrongDirection(a) ==
    \/ a.step > 0 /\ a.start > a.stop
    \/ a.step < 0 /\ a.start < a.stop

\* C14: with step < 0 the returned x is start, start+step, ... holding
\* exactly the points strictly greater than stop; with the sign of step
\* inconsistent with the direction from start to stop the axis that is
\* enumerated is empty.
C14_NegativeStepAxis ==
    /\ (Returned /\ ret.args.width > 0
                 /\ ret.args.step < 0 /\ ret.args.start > ret.args.stop)
          => ret.out.x = ExactAxisDown(ret.args.start, ret.args.stop,
                                       ret.args.step)
    /\ (IsLine /\ WrongDirection(ret.args))
          => arange(ret.args.start, ret.args.stop, ret.args.step)
                = [exc |-> "", x |-> << >>]

IsPeak == ret.fn \in {"lorentz_line", "gauss_line"}

\* the sign of a shape value
ValSgn(v) ==
    IF v.kind = "lorentz" THEN Sgn(v.num) * Sgn(v.den)
    ELSE Sgn(v.ampNum) * Sgn(v.ampDen)

\* how far down the flank a value of a call with width > 0 lies: the
\* values of one call share their amplitude, and a larger Falloff is a
\* smaller magnitude
Falloff(v) == IF v.kind = "lorentz" THEN v.den ELSE v.expNum

\* u >= v and u > v for two values of the same call (width > 0)
ValGeq(u, v) ==
    CASE ValSgn(u) > 0 -> Falloff(u) <= Falloff(v)
      [] ValSgn(u) < 0 -> Falloff(u) >= Falloff(v)
      [] OTHER -> TRUE

ValGt(u, v) ==
    CASE ValSgn(u) > 0 -> Falloff(u) < Falloff(v)
      [] ValSgn(u) < 0 -> Falloff(u) > Falloff(v)
      [] OTHER -> FALSE

AtCenter == ShapeAt(ret.args, ret.args.center)

\* C15 (as claimed): for a Gaussian or Lorentzian with width > 0 and an
\* intensity of either sign, f(center) >= every sampled y[i].
C15_CenterIsMaximum ==
    (Returned /\ IsPeak /\ ret.args.width > 0)
        => \A j \in 1..Len(ret.out.y) : ValGeq(AtCenter, ret.out.y[j])

\* C15 (amended): for a Gaussian or Lorentzian with width > 0 and
\* intensity >= 0, f(center) >= every sampled y[i].
C15_CenterIsMaximumOfPositive ==
    (Returned /\ IsPeak /\ ret.args.width > 0 /\ ret.args.intensity >= 0)
        => \A j \in 1..Len(ret.out.y) : ValGeq(AtCenter, ret.out.y[j])

C15_Witness ==
    /\ Returned /\ IsPeak
    /\ ret.args.width > 0 /\ ret.args.intensity > 0
    /\ Len(ret.out.y) >= 3
    /\ \E j \in 1..Len(ret.out.y) : ret.out.x[j] = ret.args.center
    /\ \E j \in 1..Len(ret.out.y) : ValGt(AtCenter, ret.out.y[j])

\* C16: a Gaussian or Lorentzian with width > 0 has the same value at
\* center + d and center - d: the value sampled at x[j] is the value of the
\* shape function at the mirrored point 2*center - x[j].
C16_Symmetric ==
    (Returned /\ IsPeak /\ ret.args.width > 0)
        => \A j \in 1..Len(ret.out.x) :
              ret.out.y[j] = ShapeAt(ret.args,
                                     2 * ret.args.center - ret.out.x[j])

C16_Witness ==
    /\ Returned /\ ret.fn = "gauss_line"
    /\ ret.args.width > 0
    /\ Len(ret.out.x) >= 2
    /\ \E j \in 1..Len(ret.out.x) :
          /\ ret.out.x[j] # ret.args.center
          /\ ret.out.y[j] # AtCenter

\* the normalised Gaussian
\*   intensity * (1/(sigma*sqrt(2*pi))) * exp(-(x-center)^2/(2*sigma^2)),
\* sigma = width/(2*sqrt(2 ln 2)), as a term: sqrt(2 pi) to the power -1
GaussReference(a, x) ==
    [exc |-> "", kind |-> "gauss", fin |-> TRUE,
     ampNum |-> a.intensity, ampDen |-> a.width, root2pi |-> -1,
     expNum |-> 4 * (x - a.center) * (x - a.center),
     expDen |-> a.width * a.width]

\* C17: every value gauss_line returns for width > 0 is the normalised
\* reference Gaussian at that point, whose prefactor divides intensity by
\* sigma*sqrt(2*pi).
C17_GaussNormalised ==
    (Returned /\ ret.fn = "gauss_line" /\ ret.args.width > 0)
        => \A j \in 1..Len(ret.out.x) :
              ret.out.y[j] = GaussReference(ret.args, ret.out.x[j])

Dist(j) == Abs(ret.out.x[j] - ret.args.center)

\* C18: for positive intensity (and width > 0) the values lorentz_line
\* returns strictly decrease as |x - center| increases; the documented call
\* returns the 20 points 990..1009 with its largest value at x = 1000 and
\* the values falling monotonically on both sides.
C18_LorentzFallsOff ==
    /\ (Returned /\ ret.fn = "lorentz_line"
                 /\ ret.args.width > 0 /\ ret.args.intensity > 0)
          => \A i, j \in 1..Len(ret.out.x) :
                Dist(i) < Dist(j) => ValGt(ret.out.y[i], ret.out.y[j])
    /\ (ret.fn = "lorentz_line" /\ ret.args = DocumentedCall)
          => (/\ ret.out.exc = ""
              /\ ret.out.x = [j \in 1..20 |-> Num(989 + j)]
              /\ \A j \in 1..20 : j # 11 =>
                    ValGt(ret.out.y[11], ret.out.y[j])
              /\ \A j \in 1..10 : ValGt(ret.out.y[j + 1], ret.out.y[j])
              /\ \A j \in 11..19 : ValGt(ret.out.y[j], ret.out.y[j + 1]))

C18_Witness ==
    /\ Returned /\ ret.fn = "lorentz_line"
    /\ ret.args = DocumentedCall
    /\ Len(ret.out.y) = 20
    /\ ret.out.x[11] = ret.args.center

\* ceil(a / b) for a >= 0, b > 0
CeilDiv(a, b) == (a + b - 1) \div b

\* a / 2^e rounded down and up, for a >= 0 and a rational e = n/d >= 0
\* (2^-e lies between 2^-ceil(e) and 2^-floor(e))
DownBy2(a, n, d) ==
    IF CeilDiv(n, d) >= 30 THEN 0 ELSE a \div 2^CeilDiv(n, d)
UpBy2(a, n, d) ==
    IF n \div d >= 30 THEN 1 ELSE CeilDiv(a, 2^(n \div d))

\* bounds, in tenths, of the constant of a Gaussian term:
\* 2*sqrt(2 ln 2) * sqrt(2 pi) = 5.9026..  and
\* 2*sqrt(2 ln 2) / sqrt(2 pi) = 0.9394..
GaussConstLow(v) == IF v.root2pi = 1 THEN 59 ELSE 9
GaussConstUp(v) == IF v.root2pi = 1 THEN 60 ELSE 10

\* lower and upper bounds of y * step for a shape value y with positive
\* amplitude, as model numbers (333/106 < pi < 355/113)
TermLow(v, step) ==
    IF v.kind = "lorentz"
    THEN (((v.num * 113) \div 355) * step) \div v.den
    ELSE DownBy2((v.ampNum * step * GaussConstLow(v)) \div (v.ampDen * 10),
                 v.expNum, v.expDen)

TermUp(v, step) ==
    IF v.kind = "lorentz"
    THEN CeilDiv(CeilDiv(v.num * 106, 333) * step, v.den)
    ELSE UpBy2(CeilDiv(v.ampNum * step * GaussConstUp(v), v.ampDen * 10),
               v.expNum, v.expDen)

RECURSIVE SumLow(_, _, _)
SumLow(ys, step, j) ==
    IF j = 0 THEN 0 ELSE TermLow(ys[j], step) + SumLow(ys, step, j - 1)

RECURSIVE SumUp(_, _, _)
SumUp(ys, step, j) ==
    IF j = 0 THEN 0 ELSE TermUp(ys[j], step) + SumUp(ys, step, j - 1)

\* the step is fine (at most half the width) and the axis is wide: it
\* reaches far enough on both sides of center for the normalised curve to
\* hold 99% of its area: 2 widths for a Gaussian, 32 for a Lorentzian
FineAndWide(a) ==
    LET reach == IF a.fn = "gauss_line" THEN 2 * a.width ELSE 32 * a.width
    IN  /\ a.step > 0 /\ 2 * a.step <= a.width
        /\ a.start <= a.center - reach
        /\ a.stop >= a.center + reach

\* C19: on a wide axis with a fine step the sum of y[i]*step of gauss_line
\* and lorentz_line is within 1% of intensity (intensity > 0): the sum's
\* lower bound is at most 1.01 * intensity and its upper bound at least
\* 0.99 * intensity.
C19_AreaIsIntensity ==
    (Returned /\ IsPeak /\ ret.args.width > 0 /\ ret.args.intensity > 0
              /\ FineAndWide(ret.args))
        => (/\ 100 * SumLow(ret.out.y, ret.args.step, Len(ret.out.y))
                  <= 101 * ret.args.intensity
            /\ 100 * SumUp(ret.out.y, ret.args.step, Len(ret.out.y))
                  >= 99 * ret.args.intensity)

\* the Lorentzian and Gaussian widths the decoder yields for a call
\* (f_l = 2*gamma; sigma is held as f_g)
DecodedLorentzWidth(a) == 2 * _voigt_decoder(a.q, a.width).gamma.v
DecodedGaussWidth(a) == _voigt_decoder(a.q, a.width).sigma.v

\* C20: for a ratio near 0 (q <= 1/8) the Voigt profile is nearly the
\* Lorentzian of the same width (decoded Gaussian width at most width/4,
\* Lorentzian width at least 3/4 of width), and for a ratio near 1
\* (q >= 7/8) it is nearly the Gaussian (decoded Lorentzian width at most
\* width/4, Gaussian width at least 3/4 of width).
C20_VoigtLimits ==
    (Returned /\ ret.fn = "voigt_line" /\ ret.args.width > 0)
        => (/\ (0 < ret.args.q /\ 8 * ret.args.q <= Unit)
                  => (/\ 4 * DecodedGaussWidth(ret.args) <= ret.args.width
                      /\ 4 * DecodedLorentzWidth(ret.args)
                            >= 3 * ret.args.width)
            /\ (ret.args.q < Unit /\ 8 * ret.args.q >= 7 * Unit)
                  => (/\ 4 * DecodedLorentzWidth(ret.args) <= ret.args.width
                      /\ 4 * DecodedGaussWidth(ret.args)
                            >= 3 * ret.args.width))

(* ------------- display_job_property: arguments and callback ----------- *)
IsDisplay == call.op = "display_job_property"

InvalidArguments ==
    /\ IsDisplay
    /\ (call.env.property_name \notin PropertyNames
          \/ call.env.property_index <= 0)

\* the call got as far as the test of its arguments: IPython is there and
\* the server, the notebook and the socket answered
ReachesValidation ==
    /\ call.ipython
    /\ call.env.status_ok
    /\ call.env.serve_ok
    /\ call.env.jobs_ok

\* C21, as stated: a call with an unknown property_name or with
\* property_index <= 0 raises ValueError, displays no Javascript and awaits
\* no callback response
C21_InvalidArgumentsRaiseValueError ==
    InvalidArguments
        => (/\ call.exc = "ValueError"
            /\ ~Did("display_javascript")
            /\ ~Did("await_response"))

\* C21, amended: a call with an unknown property_name or with
\* property_index <= 0 (whatever the property, surfaces included) raises,
\* displays no Javascript and awaits no callback response; what it raises
\* is ValueError unless an earlier step of the call raised before the
\* results were fetched, and it is ValueError whenever the call reaches
\* the test of its arguments
C21_InvalidArgumentsNeverDisplayed ==
    InvalidArguments
        => (/\ call.exc # ""
            /\ ~Did("display_javascript")
            /\ ~Did("await_response")
            /\ call.pc = "done"
            /\ call.value = NoValue
            /\ call.js = NoJavascript
            /\ (call.exc = "ValueError"
                  \/ (/\ call.exc \in {"NotImplementedError", "HTTPError",
                                        "OSError"}
                      /\ ~Did("results_request")))
            /\ (ReachesValidation => call.exc = "ValueError")
            /\ (Did("results_request") => call.exc = "ValueError"))

C21_Witness ==
    /\ IsDisplay
    /\ call.env.property_name \in SURFACE_PROPERTIES
    /\ call.env.property_index <= 0
    /\ call.exc = "ValueError"
    /\ Did("results_request")

IsImage(value) == value.type = "EmbeddedImage"

Returned_Display == IsDisplay /\ call.pc = "done" /\ call.exc = ""

\* C22: _process_callback_response looks at the queue at most TIMEOUT times,
\* once after each sleep; a look that finds the queue non-empty removes its
\* oldest message, returns the image decoded from it and leaves the later
\* messages queued; a look that finds it empty leaves it unchanged, and
\* after TIMEOUT empty looks the method prints the timeout text and returns
\* None without raising
C22_ChecksQueueUpToTimeout ==
    /\ [](IsDisplay => (call.i <= TIMEOUT /\ Len(call.checked) = call.i))
    /\ [][(Awaiting /\ call' # call)
            => LET queue == self.websocket_response_queue
               IN  /\ call'.i = call.i + 1
                   /\ IF Len(queue) > 0
                      THEN /\ call'.pc = "done"
                           /\ call'.value =
                                 [type |-> "EmbeddedImage",
                                  data |-> Head(queue).imageURI[2].b64]
                           /\ call'.printed = ""
                           /\ call'.exc = ""
                           /\ self'.websocket_response_queue = Tail(queue)
                      ELSE /\ self'.websocket_response_queue = queue
                           /\ (call'.pc = "done") = (call'.i = TIMEOUT)
                           /\ call'.pc = "done"
                                 => (/\ call'.value = NoneValue
                                     /\ call'.printed = TimeoutText
                                     /\ call'.exc = "")]_vars
    /\ []((Returned_Display /\ call.value = NoneValue)
            => (/\ call.i = TIMEOUT
                /\ \A k \in 1..call.i : call.checked[k] = << >>))
    /\ []((Returned_Display /\ IsImage(call.value))
            => (/\ call.i \in 1..TIMEOUT
                /\ call.checked[call.i] # << >>
                /\ \A k \in 1..(call.i - 1) : call.checked[k] = << >>))

\* a call returned the image of the oldest of two queued messages after
\* more than one look, and the later message stays queued
C22_Witness ==
    /\ Returned_Display
    /\ IsImage(call.value)
    /\ call.i >= 2
    /\ Len(call.checked[call.i]) = 2
    /\ Len(self.websocket_response_queue) = 1

\* C23, as stated: the image a display_job_property call returns is the
\* one produced by the Javascript request this same call displayed
C23_ResultIsOwnResponse ==
    (Returned_Display /\ IsImage(call.value))
        => call.value.data = call.req

\* C24, as stated: the destructor completes without raising in every
\* reachable object state
C24_DestructorNeverRaises ==
    call.op = "__del__" => call.exc = ""

\* C25: on one object the supporting Javascript is injected successfully
\* at most once (_init_javascript is False from then on and a call that
\* starts with it False injects nothing), the callback listener is created
\* at most once (a call that starts with a listener creates none), and the
\* port embedded in every generated screenshot command is the port that
\* listener is bound to
C25_InjectedAndListeningOnce ==
    /\ notebook.injections <= 1
    /\ notebook.listeners <= 1
    /\ (self.state = "live" /\ notebook.injections = 1)
          => self.init_javascript = "False"
    /\ self.init_javascript = "False" => notebook.injections = 1
    /\ self.callback_listener \in {"open", "closed"}
          => (notebook.listeners = 1 /\ self.callback_port = notebook.bound)
    /\ IsDisplay
          => (/\ call.before.init_javascript = "False"
                    => ~Did("inject_javascript")
              /\ call.before.callback_listener = "open"
                    => ~Did("create_listener")
              /\ call.js # NoJavascript
                    => (/\ call.js.port = notebook.bound
                        /\ call.js.port \in Ports
                        /\ notebook.listeners = 1
                        /\ self.callback_listener = "open"))

\* the second call on an object that has injected and is listening
\* generates a screenshot command
C25_Witness ==
    /\ IsDisplay
    /\ call.req = 2
    /\ call.before.init_javascript = "False"
    /\ call.before.callback_listener = "open"
    /\ call.js # NoJavascript
    /\ call.js.port = notebook.bound

=============================================================================
